---- MODULE Spec2Model ----
(***************************************************************************)
(* MarkdownLivePreview: the image cache and asynchronous fetch pipeline of *)
(* markdown2html.py together with the editor glue of MarkdownLivePreview.py *)
(* that drives it (throttled update_preview, the preview command, closing). *)
(*                                                                         *)
(* Threads.  Thread 0 is the editor's main thread: it runs the commands,   *)
(* the set_timeout callbacks and on_pre_close.  Thread i > 0 is the pool   *)
(* worker thread for as long as it runs the i-th submitted future: it runs  *)
(* load_image, then the future's done-callback, and inside it re_render,   *)
(* i.e. a whole update_preview.  A step is one source line (or a run of    *)
(* lines that touch no shared state in between); the interpreter may switch *)
(* threads between any two steps.                                          *)
(*                                                                         *)
(* Two calls that share no state with the rest are specified on their own: *)
(* the scaling of an oversized image (SpecScale) and get_image_size, byte   *)
(* by byte (SpecSniff).                                                    *)
(***************************************************************************)
EXTENDS Integers, Sequences, FiniteSets, TLC

\* ------------------------------------------------------------------ bounds
MaxTasks == 6 \* futures submitted to the executor in one behaviour
MaxTime == 4  \* last clock value
MaxEdits == 2 \* modifications of the markdown buffer
MaxOpens == 1 \* runs of OpenMarkdownPreviewCommand
MaxDim == 6   \* largest image width, height and viewport width
MaxSegs == 3  \* pieces of a byte stream after its first marker

\* ------------------------------------------------------- program constants
one_thread_per_task == MaxTasks \* a pool that never makes a request wait
max_workers == 5 \* ThreadPoolExecutor(max_workers=5)
DELAY == 2       \* delay_between_updates, in clock ticks
StartTime == DELAY \* time.time() at plugin_loaded: at least DELAY past last_update = 0

Main == 0
Tasks == 1..MaxTasks
Threads == 0..MaxTasks
Instances == 0..MaxOpens \* 0: the listener the editor registered; k: the one made by the k-th run

\* image sources after the classification of markdown2html (lines 35-40)
RemoteKeys == {"http://a", "https://b", "http://c", "http://d", "http://e", "http://f"}
GoodFiles == {"/doc/ok.png"}      \* readable, header sniffs
MissingFiles == {"/doc/gone.png"} \* open() raises
BadFiles == {"/doc/bad.png"}      \* get_image_size returns no (width, height)
LocalKeys == GoodFiles \cup MissingFiles \cup BadFiles
DataSrcs == {"data:image/x"}
Keys == RemoteKeys \cup LocalKeys

\* resources (plugin_loaded) and cache values
Loading == "loading" \* resources["base64_loading_image"]
Err404 == "err404"   \* resources["base64_404_image"]
Img == "img"         \* a real image, base64 + size
None == "none"       \* no entry / nothing
NoKey == "-"

IsRemote(path) == path \in RemoteKeys

VARIABLES
  doc,            \* the markdown buffer: its <img> sources in order
  view_open,      \* the markdown view's buffer_id() /= 0
  previews,       \* views of the window that have a preview_view_info
  phantom_sets,   \* MarkdownLivePreviewListener.phantom_sets: preview id -> html shown
  next_id,        \* id of the next view / listener instance created by the command
  last_update,    \* last_update as seen through each listener instance
  timers,         \* set_timeout callbacks pending, due times in order
  now,            \* time.time()
  nedits,         \* modifications so far
  images_cache,   \* markdown2html.images_cache
  images_loading, \* markdown2html.images_loading (a list)
  ntasks,         \* futures submitted so far
  net,            \* the responses the network gives in this behaviour
  th,             \* each thread's position and locals
  render_log,     \* times at which a full render started
  dirty,          \* the buffer was modified after the last time a render read it
  fhandle,        \* get_image_size: the stream, its position and the locals
  img_element     \* markdown2html: an <img> with its resolved size and attributes

vars == <<doc, view_open, previews, phantom_sets, next_id, last_update, timers, now, nedits,
          images_cache, images_loading, ntasks, net, th, render_log, dirty, fhandle,
          img_element>>

editor == <<doc, view_open, previews, phantom_sets, next_id, timers, now, nedits, dirty>>
pure == <<fhandle, img_element>> \* the calls checked on their own
shared == <<images_cache, images_loading, ntasks, net, pure>>

\* ----------------------------------------------------------------- helpers
RECURSIVE RemoveFirst(_, _)
RemoveFirst(s, x) ==
  IF s = <<>> THEN <<>>
  ELSE IF Head(s) = x THEN Tail(s)
  ELSE <<Head(s)>> \o RemoveFirst(Tail(s), x)

InList(x, s) == \E i \in 1..Len(s) : s[i] = x

RECURSIVE InOrder(_)
InOrder(S) ==
  IF S = {} THEN <<>>
  ELSE LET m == CHOOSE x \in S : \A y \in S : x <= y
       IN <<m>> \o InOrder(S \ {m})

\* the markdown view of the model, and a second markdown view of the same window
\* with a preview of its own, which stays open
MdView == "md"
OtherMdView == "other.md"
OtherPreviews == {MaxOpens + 1}

\* a lookup that takes every preview for one of the markdown view
any_preview_view_info(x) == MdView

\* settings().get(PREVIEW_VIEW_INFO)["id"] of a preview
preview_view_info(x) == IF x \in OtherPreviews THEN OtherMdView ELSE MdView

\* find_preview(view) for the markdown view: the window's views whose
\* preview_view_info id is the view's
find_preview == InOrder({x \in previews : preview_view_info(x) = MdView})

Idle == [pc |-> "idle", inst |-> 0, path |-> NoKey, res |-> None, todo |-> <<>>,
         html |-> <<>>, pvs |-> <<>>, rr |-> 0, last |-> None, cmd |-> None]

\* the thread leaves update_preview (or the callback): the main thread goes back
\* to the event loop, a worker's future is finished for good.  `last` keeps how
\* the call ended: an outcome of update_preview, or the exception that left it
\* (the editor prints it, the executor logs it)
Finished(r, outcome) ==
  [Idle EXCEPT !.pc = IF r.cmd = "task" THEN "done" ELSE "idle",
               !.rr = r.rr,
               !.cmd = IF r.cmd = "task" THEN "task" ELSE None,
               !.last = outcome]

Return(t, outcome) == th' = [th EXCEPT ![t] = Finished(th[t], outcome)]

Raise(t, e) == th' = [th EXCEPT ![t] = Finished(th[t], e)]

\* markdown2html lines 28-33: the next <img>; data: sources are skipped
RECURSIVE NextImg(_)
NextImg(r) ==
  IF r.todo = <<>> THEN [r EXCEPT !.pc = "phantom", !.path = NoKey]
  ELSE IF Head(r.todo) \in DataSrcs
       THEN NextImg([r EXCEPT !.todo = Tail(r.todo), !.html = Append(r.html, Head(r.todo))])
       ELSE [r EXCEPT !.pc = "gbi_cache", !.path = Head(r.todo)]

\* markdown2html lines 42-44: the resolved value replaces the src
Resolved(r, v) == NextImg([r EXCEPT !.todo = Tail(r.todo), !.html = Append(r.html, v)])

\* ------------------------------------------------- update_preview (any thread)
\* line 70-71: the throttle
UpdateCheck(t) ==
  /\ th[t].pc = "up_check"
  /\ IF now - last_update[th[t].inst] < DELAY
     THEN Return(t, "throttled")
     ELSE th' = [th EXCEPT ![t].pc = "up_alive"]
  /\ UNCHANGED <<editor, shared, last_update, render_log>>

\* the time stamp taken before the target is known to be alive
UpdateAliveStampsFirst(t) ==
  /\ th[t].pc = "up_alive"
  /\ last_update' = [last_update EXCEPT ![th[t].inst] = now]
  /\ IF ~view_open
     THEN Return(t, "gone") /\ UNCHANGED render_log
     ELSE IF find_preview = <<>>
     THEN Return(t, "nopreview") /\ UNCHANGED render_log
     ELSE /\ render_log' = Append(render_log, now)
          /\ th' = [th EXCEPT ![t].pc = "m2h", ![t].pvs = find_preview]
  /\ UNCHANGED <<editor, shared>>

\* lines 72-77: liveness of the target, then the time stamp
UpdateAlive(t) ==
  /\ th[t].pc = "up_alive"
  /\ IF ~view_open
     THEN Return(t, "gone") /\ UNCHANGED <<last_update, render_log>>
     ELSE IF find_preview = <<>>
     THEN Return(t, "nopreview") /\ UNCHANGED <<last_update, render_log>>
     ELSE /\ last_update' = [last_update EXCEPT ![th[t].inst] = now]
          /\ render_log' = Append(render_log, now)
          /\ th' = [th EXCEPT ![t].pc = "m2h", ![t].pvs = find_preview]
  /\ UNCHANGED <<editor, shared>>

\* lines 78-85 and markdown2html lines 25-28: the next preview's render starts
RenderStart(t) ==
  /\ th[t].pc = "m2h"
  /\ IF th[t].pvs = <<>>
     THEN Return(t, "rendered")
     ELSE IF ~view_open
     THEN Raise(t, "TypeError: dirname(None)")
     ELSE th' = [th EXCEPT ![t] = NextImg([th[t] EXCEPT !.todo = doc, !.html = <<>>])]
  /\ dirty' = (dirty /\ (th[t].pvs = <<>> \/ ~view_open)) \* line 80 reads the buffer
  /\ UNCHANGED <<doc, view_open, previews, phantom_sets, next_id, timers, now, nedits, shared,
                 last_update, render_log>>

\* lines 86-88: the phantom set of the preview gets the html
Phantom(t) ==
  /\ th[t].pc = "phantom"
  /\ LET p == Head(th[t].pvs) IN
     IF p \in DOMAIN phantom_sets
     THEN /\ phantom_sets' = [phantom_sets EXCEPT ![p] = th[t].html]
          /\ th' = [th EXCEPT ![t].pc = "m2h", ![t].pvs = Tail(th[t].pvs),
                              ![t].html = <<>>, ![t].todo = <<>>]
     ELSE Raise(t, "KeyError") /\ UNCHANGED phantom_sets
  /\ UNCHANGED <<doc, view_open, previews, next_id, timers, now, nedits, dirty, shared,
                 last_update, render_log>>

\* ---------------------------------------------- get_base64_image (any thread)
\* lines 97-100
GbiCache(t) ==
  /\ th[t].pc = "gbi_cache"
  /\ th' = [th EXCEPT ![t] =
       IF images_cache[th[t].path] /= None THEN Resolved(th[t], images_cache[th[t].path])
       ELSE IF IsRemote(th[t].path) THEN [th[t] EXCEPT !.pc = "gbi_loading"]
       ELSE [th[t] EXCEPT !.pc = "gbi_open"]]
  /\ UNCHANGED <<editor, shared, last_update, render_log>>

\* a resolve that waits for the fetch in flight and hands back its result
GbiLoadingWaits(t) ==
  /\ th[t].pc = "gbi_loading"
  /\ InList(th[t].path, images_loading) => images_cache[th[t].path] /= None
  /\ th' = [th EXCEPT ![t] =
       IF InList(th[t].path, images_loading) THEN Resolved(th[t], images_cache[th[t].path])
       ELSE [th[t] EXCEPT !.pc = "gbi_submit"]]
  /\ UNCHANGED <<editor, shared, last_update, render_log>>

\* line 101 (and 104 when the key is being loaded)
GbiLoading(t) ==
  /\ th[t].pc = "gbi_loading"
  /\ th' = [th EXCEPT ![t] =
       IF InList(th[t].path, images_loading) THEN Resolved(th[t], Loading)
       ELSE [th[t] EXCEPT !.pc = "gbi_submit"]]
  /\ UNCHANGED <<editor, shared, last_update, render_log>>

\* line 102: executor.submit(load_image, path).add_done_callback(callback), one
\* step: the callback is registered before the future can finish
GbiSubmit(t) ==
  /\ th[t].pc = "gbi_submit"
  /\ ntasks < MaxTasks
  /\ ntasks' = ntasks + 1
  /\ th' = [th EXCEPT ![t].pc = "gbi_append",
                      ![ntasks + 1] = [Idle EXCEPT !.pc = "queued", !.path = th[t].path,
                                                   !.inst = th[t].inst, !.cmd = "task"]]
  /\ UNCHANGED <<editor, images_cache, images_loading, net, pure, last_update, render_log>>

\* lines 103-104
GbiAppend(t) ==
  /\ th[t].pc = "gbi_append"
  /\ images_loading' = Append(images_loading, th[t].path)
  /\ th' = [th EXCEPT ![t] = Resolved(th[t], Loading)]
  /\ UNCHANGED <<editor, images_cache, ntasks, net, pure, last_update, render_log>>

\* a local failure handled like a remote one: the error placeholder is cached
GbiOpenCachesError(t) ==
  /\ th[t].pc = "gbi_open"
  /\ IF th[t].path \in MissingFiles \cup BadFiles
     THEN /\ images_cache' = [images_cache EXCEPT ![th[t].path] = Err404]
          /\ th' = [th EXCEPT ![t] = Resolved(th[t], Err404)]
     ELSE /\ images_cache' = [images_cache EXCEPT ![th[t].path] = Img]
          /\ th' = [th EXCEPT ![t] = Resolved(th[t], Img)]
  /\ UNCHANGED <<editor, images_loading, ntasks, net, pure, last_update, render_log>>

\* lines 106-111: a local file
GbiOpen(t) ==
  /\ th[t].pc = "gbi_open"
  /\ IF th[t].path \in MissingFiles
     THEN Raise(t, "FileNotFoundError") /\ UNCHANGED images_cache
     ELSE IF th[t].path \in BadFiles
     THEN Raise(t, "ValueError: unpack") /\ UNCHANGED images_cache
     ELSE /\ images_cache' = [images_cache EXCEPT ![th[t].path] = Img]
          /\ th' = [th EXCEPT ![t] = Resolved(th[t], Img)]
  /\ UNCHANGED <<editor, images_loading, ntasks, net, pure, last_update, render_log>>

\* --------------------------------------------------------- the worker pool
Executing == {i \in Tasks : th[i].pc \notin {"idle", "queued", "done"}}
Queued == {i \in Tasks : th[i].pc = "queued"}

\* a worker thread takes the oldest queued work item
Start(i) ==
  /\ i \in Queued
  /\ \A j \in Queued : i <= j
  /\ Cardinality(Executing) < max_workers
  /\ th' = [th EXCEPT ![i].pc = "load"]
  /\ UNCHANGED <<editor, shared, last_update, render_log>>

\* what urlopen and the body can be
Responses == [conn : {"ok", "HTTPError", "URLError", "timeout"},
              ctype : {"image/png", "text/html"},
              sniff : {"size", "nosize"}]

\* line 119: "image" in content_type
ContainsImage(ctype) == ctype \in {"image/png"}

\* load_image, lines 114-122: the future's result or exception
load_image(resp) ==
  IF resp.conn /= "ok" THEN resp.conn
  ELSE IF resp.sniff /= "size" THEN "ValueError: unpack"
  ELSE IF ~ContainsImage(resp.ctype) THEN "ValueError: not an image"
  ELSE Img

\* load_image ends: the future holds its result or exception and runs the
\* callback in this worker thread
Load(i) ==
  /\ th[i].pc = "load"
  /\ \E resp \in net : th' = [th EXCEPT ![i].pc = "cb_write", ![i].res = load_image(resp)]
  /\ UNCHANGED <<editor, shared, last_update, render_log>>

\* callback lines 85-89: what the callback stores for the future's outcome;
\* None when the exception is not an HTTPError and leaves the callback
callback_store(res) ==
  IF res = Img THEN Img
  ELSE IF res = "HTTPError" THEN Err404
  ELSE None

CbWrite(i) ==
  /\ th[i].pc = "cb_write"
  /\ IF callback_store(th[i].res) /= None
     THEN /\ images_cache' = [images_cache EXCEPT ![th[i].path] = callback_store(th[i].res)]
          /\ th' = [th EXCEPT ![i].pc = "cb_remove", ![i].res = None]
     ELSE Raise(i, th[i].res) /\ UNCHANGED images_cache
  /\ UNCHANGED <<editor, images_loading, ntasks, net, pure, last_update, render_log>>

\* callback lines 91-95: images_loading.remove(path), then re_render()
CbRemove(i) ==
  /\ th[i].pc = "cb_remove"
  /\ IF InList(th[i].path, images_loading)
     THEN /\ images_loading' = RemoveFirst(images_loading, th[i].path)
          /\ th' = [th EXCEPT ![i].pc = "up_check", ![i].rr = th[i].rr + 1]
     ELSE Raise(i, "ValueError: list.remove") /\ UNCHANGED images_loading
  /\ UNCHANGED <<editor, images_cache, ntasks, net, pure, last_update, render_log>>

\* ------------------------------------------------------ the editor's events
\* OpenMarkdownPreviewCommand.run lines 94-101
RunOpen ==
  /\ th[Main].pc = "idle"
  /\ view_open
  /\ next_id <= MaxOpens
  /\ previews' = previews \cup {next_id}
  /\ next_id' = next_id + 1
  /\ th' = [th EXCEPT ![Main] = [Idle EXCEPT !.pc = "run_ps", !.inst = next_id, !.cmd = "open"]]
  /\ UNCHANGED <<doc, view_open, phantom_sets, timers, now, nedits, dirty, shared, last_update,
                 render_log>>

\* run lines 102-104: the phantom set, then update_preview on a fresh listener
RunPhantomSet ==
  /\ th[Main].pc = "run_ps"
  /\ phantom_sets' = [p \in DOMAIN phantom_sets \cup {th[Main].inst} |->
                        IF p = th[Main].inst THEN <<>> ELSE phantom_sets[p]]
  /\ th' = [th EXCEPT ![Main].pc = "up_check"]
  /\ UNCHANGED <<doc, view_open, previews, next_id, timers, now, nedits, dirty, shared,
                 last_update, render_log>>

\* the buffers an edit leaves behind
EditDocs == { <<"http://a">>, <<"/doc/ok.png", "http://a">> }

\* an update scheduled sooner than the throttle lets it pass
ModifyShortTimeout ==
  /\ view_open
  /\ nedits < MaxEdits
  /\ nedits' = nedits + 1
  /\ doc' \in EditDocs
  /\ timers' = Append(timers, now + DELAY - 1)
  /\ dirty' = TRUE
  /\ UNCHANGED <<view_open, previews, phantom_sets, next_id, now, shared, th, last_update,
                 render_log>>

\* the user edits the buffer; on_modified_async, lines 60-63
Modify ==
  /\ view_open
  /\ nedits < MaxEdits
  /\ nedits' = nedits + 1
  /\ doc' \in EditDocs
  /\ timers' = Append(timers, now + DELAY)
  /\ dirty' = TRUE
  /\ UNCHANGED <<view_open, previews, phantom_sets, next_id, now, shared, th, last_update,
                 render_log>>

\* sublime.set_timeout: update_preview of the registered listener, on the main thread
TimerFire ==
  /\ th[Main].pc = "idle"
  /\ timers /= <<>>
  /\ now >= Head(timers)
  /\ timers' = Tail(timers)
  /\ th' = [th EXCEPT ![Main] = [Idle EXCEPT !.pc = "up_check", !.inst = 0, !.cmd = "timer"]]
  /\ UNCHANGED <<doc, view_open, previews, phantom_sets, next_id, now, nedits, dirty, shared,
                 last_update, render_log>>

Tick ==
  /\ now < MaxTime
  /\ now' = now + 1
  /\ UNCHANGED <<doc, view_open, previews, phantom_sets, next_id, timers, nedits, dirty, shared,
                 th, last_update, render_log>>

\* on_pre_close of the markdown view, lines 46-49
PreClose ==
  /\ th[Main].pc = "idle"
  /\ view_open
  /\ th' = [th EXCEPT ![Main] = [Idle EXCEPT !.pc = IF find_preview = <<>> THEN "close_end"
                                                    ELSE "close_del",
                                             !.pvs = find_preview, !.cmd = "close_md"]]
  /\ UNCHANGED <<editor, shared, last_update, render_log>>

\* lines 50-52, and on_pre_close of the preview, lines 54-58
CloseDel ==
  /\ th[Main].pc = "close_del"
  /\ phantom_sets' = [p \in DOMAIN phantom_sets \ {Head(th[Main].pvs)} |-> phantom_sets[p]]
  /\ th' = [th EXCEPT ![Main].pc = "close_gone"]
  /\ UNCHANGED <<doc, view_open, previews, next_id, timers, now, nedits, dirty, shared, last_update,
                 render_log>>

\* close_file: the preview leaves the window
CloseGone ==
  /\ th[Main].pc = "close_gone"
  /\ previews' = previews \ {Head(th[Main].pvs)}
  /\ th' = [th EXCEPT ![Main] =
       IF Tail(th[Main].pvs) /= <<>> THEN [th[Main] EXCEPT !.pc = "close_del", !.pvs = Tail(@)]
       ELSE IF th[Main].cmd = "close_md" THEN [th[Main] EXCEPT !.pc = "close_end", !.pvs = <<>>]
       ELSE Idle]
  /\ UNCHANGED <<doc, view_open, phantom_sets, next_id, timers, now, nedits, dirty, shared,
                 last_update, render_log>>

\* the markdown view closes
CloseEnd ==
  /\ th[Main].pc = "close_end"
  /\ view_open' = FALSE
  /\ th' = [th EXCEPT ![Main] = Idle]
  /\ UNCHANGED <<doc, previews, phantom_sets, next_id, timers, now, nedits, dirty, shared,
                 last_update, render_log>>

\* ------------------------------------------------------------ specification
Docs == { <<"http://a">>, <<"http://a", "https://b">>, <<"/doc/gone.png", "/doc/ok.png">>,
          <<"http://a", "/doc/bad.png">> }

\* no call of get_image_size, no <img> under way
Closed == [pc |-> "closed"]
NoElement == [pc |-> "none"]

InitEditor(D, N) ==
  /\ doc \in D
  /\ net \in N
  /\ view_open = TRUE
  /\ previews = OtherPreviews
  /\ phantom_sets = [p \in OtherPreviews |-> <<>>]
  /\ next_id = 1
  /\ last_update = [i \in Instances |-> 0]
  /\ timers = <<>>
  /\ now = StartTime
  /\ nedits = 0
  /\ images_cache = [k \in Keys |-> None]
  /\ images_loading = <<>>
  /\ ntasks = 0
  /\ th = [t \in Threads |-> Idle]
  /\ render_log = <<>>
  /\ dirty = FALSE

InitWith(D, N) ==
  /\ InitEditor(D, N)
  /\ fhandle = Closed
  /\ img_element = NoElement

Init == InitWith(Docs, {Responses})

Render(t) ==
  \/ UpdateCheck(t)
  \/ UpdateAlive(t)
  \/ RenderStart(t)
  \/ Phantom(t)
  \/ GbiCache(t)
  \/ GbiLoading(t)
  \/ GbiSubmit(t)
  \/ GbiAppend(t)
  \/ GbiOpen(t)

Worker(i) ==
  \/ Start(i)
  \/ Load(i)
  \/ CbWrite(i)
  \/ CbRemove(i)

Next ==
  \/ \E t \in Threads : Render(t)
  \/ \E i \in Tasks : Worker(i)
  \/ RunOpen
  \/ RunPhantomSet
  \/ Tick

Spec == Init /\ [][Next]_vars


\* the editor's side: edits, timers, closing, over a document with one remote image
ViewDocs == EditDocs
InitView == InitWith(ViewDocs, {Responses})

NextView ==
  \/ \E t \in Threads : Render(t)
  \/ \E i \in Tasks : Worker(i)
  \/ RunOpen
  \/ RunPhantomSet
  \/ Modify
  \/ TimerFire
  \/ Tick
  \/ PreClose
  \/ CloseDel
  \/ CloseGone
  \/ CloseEnd

SpecView == InitView /\ [][NextView]_vars

\* the pool's side: a local image and six remote ones, on a server that answers every request
\* with an image or on one that never answers (load_image runs into its timeout)
PoolDocs == { <<"/doc/ok.png", "http://a", "https://b", "http://c", "http://d", "http://e",
               "http://f">> }
Image == [conn |-> "ok", ctype |-> "image/png", sniff |-> "size"]
Silent == [conn |-> "timeout", ctype |-> "image/png", sniff |-> "size"]
InitPool == InitWith(PoolDocs, {{Image}, {Silent}})

NextPool ==
  \/ \E t \in Threads : Render(t)
  \/ \E i \in Tasks : Worker(i)
  \/ RunOpen
  \/ RunPhantomSet

SpecPool == InitPool /\ [][NextPool]_vars

\* a step of some thread that is running
Running ==
  \/ RunPhantomSet
  \/ \E t \in Threads : Render(t)
  \/ \E i \in Tasks : Worker(i)

\* while some thread can run, one of them does (the interpreter never idles
\* with runnable threads), and urlopen's timeout ends every load_image; the
\* user is free never to run the command
SpecPoolFair == SpecPool /\ WF_vars(Running)

\* the render path is scheduled fairly; nothing is assumed of the fetch tasks
SpecRenderFair == Spec /\ \A t \in Threads : WF_vars(Render(t))

\* ------------------------------------------- markdown2html lines 44-47, alone
\* everything but the two calls checked on their own
program == <<editor, images_cache, images_loading, ntasks, net, th, last_update, render_log>>

RECURSIVE GCD(_, _)
GCD(a, b) == IF b = 0 THEN a ELSE GCD(b, a % b)

\* what n / 0 raises, in place of a quotient
ZeroDivisionError == <<0, 0>>

\* n / d of Python 3 for n >= 0 and d >= 0: the quotient itself, in lowest terms
\* <<numerator, denominator>> (the rounding of the float is left out)
TrueDiv(n, d) ==
  IF d = 0 THEN ZeroDivisionError ELSE <<n \div GCD(n, d), d \div GCD(n, d)>>

\* viewport_width * q
Times(viewport_width, q) ==
  IF q = ZeroDivisionError THEN ZeroDivisionError ELSE TrueDiv(viewport_width * q[1], q[2])

\* the width and height attributes of an <img> that has neither
NoAttrs == <<>>

\* the test of line 45 taken with >=
FillsViewport(width, viewport_width) == width >= viewport_width

\* line 45
Oversized(width, viewport_width) == width > viewport_width

\* lines 45-47 for an <img> whose size get_base64_image has returned
Scale ==
  /\ img_element.pc = "resolved"
  /\ img_element' =
       [img_element EXCEPT
          !.pc = "done",
          !.attrs = IF Oversized(img_element.width, img_element.viewport_width)
                    THEN [width |-> img_element.viewport_width,
                          height |-> Times(img_element.viewport_width,
                                           TrueDiv(img_element.height, img_element.width))]
                    ELSE NoAttrs]
  /\ UNCHANGED <<program, fhandle>>

Dims == 0..MaxDim

InitScale ==
  /\ InitEditor({<<>>}, {{}})
  /\ fhandle = Closed
  /\ img_element \in [pc : {"resolved"}, width : Dims, height : Dims, viewport_width : Dims,
                      attrs : {NoAttrs}]

NextScale == Scale

SpecScale == InitScale /\ [][NextScale]_vars

\* ------------------------------------------------------ get_image_size, alone
HeadLen == 24 \* fhandle.read(24)

\* how a call ends: a (width, height) tuple, another value, or an exception
Size(fh, width, height) ==
  [fh EXCEPT !.pc = "done",
             !.result = [kind |-> "size", val |-> "", width |-> width, height |-> height]]
Returned(fh, val) ==
  [fh EXCEPT !.pc = "done", !.result = [kind |-> "return", val |-> val, width |-> 0, height |-> 0]]
Raised(fh, e) ==
  [fh EXCEPT !.pc = "done", !.result = [kind |-> "raise", val |-> e, width |-> 0, height |-> 0]]

\* struct.unpack of ">i", "<H" and ">H"
Int32BE(d, i) ==
  (((IF d[i] >= 128 THEN d[i] - 256 ELSE d[i]) * 256 + d[i + 1]) * 256 + d[i + 2]) * 256 + d[i + 3]
UInt16LE(lo, hi) == 256 * hi + lo
UInt16BE(hi, lo) == 256 * hi + lo

\* PNG signature bytes 4..7, compared as 0x0D0A1A0A
PngCheck == <<13, 10, 26, 10>>

\* fhandle.seek(offset, 1) of io.BytesIO: a position before the start becomes 0
seek_cur(pos, offset) == IF pos + offset < 0 THEN 0 ELSE pos + offset

\* a segment length that counts the two marker bytes as well
segment_size_with_marker(hi, lo) == UInt16BE(hi, lo) - 4

\* line 164: the segment length without its own two bytes
segment_size(hi, lo) == UInt16BE(hi, lo) - 2

\* lines 138-147 and 170-171
SniffHead ==
  /\ fhandle.pc = "head"
  /\ LET d == fhandle.data IN
     fhandle' =
       IF Len(d) < HeadLen THEN Returned(fhandle, "invalid head")
       ELSE IF fhandle.format_ = "png"
       THEN IF SubSeq(d, 5, 8) /= PngCheck THEN Returned(fhandle, None)
            ELSE Size(fhandle, Int32BE(d, 17), Int32BE(d, 21))
       ELSE IF fhandle.format_ = "gif"
       THEN Size(fhandle, UInt16LE(d[7], d[8]), UInt16LE(d[9], d[10]))
       ELSE IF fhandle.format_ = "jpeg"
       THEN [fhandle EXCEPT !.pc = "loop", !.pos = 0, !.size = 2, !.ftype = 0]
       ELSE Returned(fhandle, "unknown format")
  /\ UNCHANGED <<program, img_element>>

\* lines 154-158: the loop test, the seek over the segment, the byte after it
JpegSeek ==
  /\ fhandle.pc = "loop"
  /\ LET p == seek_cur(fhandle.pos, fhandle.size) IN
     fhandle' =
       IF fhandle.ftype \in 192..207 THEN [fhandle EXCEPT !.pc = "sof"]
       ELSE IF p >= Len(fhandle.data)
       THEN Raised([fhandle EXCEPT !.pos = p, !.want = 1], "NameError: end")
       ELSE [fhandle EXCEPT !.pc = "fill", !.pos = p + 1, !.byte = fhandle.data[p + 1]]
  /\ UNCHANGED <<program, img_element>>

\* lines 161-162: fill bytes
JpegFill ==
  /\ fhandle.pc = "fill"
  /\ fhandle' =
       IF fhandle.byte /= 255 THEN [fhandle EXCEPT !.pc = "ftype"]
       ELSE IF fhandle.pos >= Len(fhandle.data)
       THEN Raised([fhandle EXCEPT !.want = 1], "TypeError: ord")
       ELSE [fhandle EXCEPT !.pos = @ + 1, !.byte = fhandle.data[fhandle.pos + 1]]
  /\ UNCHANGED <<program, img_element>>

\* lines 163-164
JpegType ==
  /\ fhandle.pc = "ftype"
  /\ LET p == fhandle.pos IN
     fhandle' =
       IF p + 2 > Len(fhandle.data)
       THEN Raised([fhandle EXCEPT !.ftype = fhandle.byte, !.want = 2], "struct.error")
       ELSE [fhandle EXCEPT !.pc = "loop", !.ftype = fhandle.byte, !.pos = p + 2,
                            !.size = segment_size(fhandle.data[p + 1], fhandle.data[p + 2])]
  /\ UNCHANGED <<program, img_element>>

\* lines 166-167 and 172
JpegSof ==
  /\ fhandle.pc = "sof"
  /\ LET p == seek_cur(fhandle.pos, 1)
         d == fhandle.data IN
     fhandle' =
       IF p + 4 > Len(d) THEN Raised([fhandle EXCEPT !.pos = p, !.want = 4], "struct.error")
       ELSE Size([fhandle EXCEPT !.pos = p + 4],
                 UInt16BE(d[p + 3], d[p + 4]), UInt16BE(d[p + 1], d[p + 2]))
  /\ UNCHANGED <<program, img_element>>

\* byte streams: after the SOI marker, up to MaxSegs pieces of a JPEG file; and
\* the first bytes of a PNG and of a GIF file, whole and cut short
Zeros(n) == [i \in 1..n |-> 0]
SOI == <<255, 216>>
APP0 == <<255, 224, 0, 16>> \o Zeros(14)
SOF0 == <<255, 192, 0, 11, 8, 0, 2, 0, 3, 1, 1, 17, 0>> \* 3 wide, 2 high
DHT == <<255, 196, 0, 4, 1, 2>>
ZeroLength == <<255, 225, 0, 0>>
OneLength == <<255, 225, 0, 1>>
FillBytes == <<255, 255, 255>>
Segments == {APP0, SOF0, DHT, ZeroLength, OneLength, FillBytes, Zeros(7)}

RECURSIVE JpegStreams(_)
JpegStreams(n) ==
  IF n = 0 THEN {SOI}
  ELSE JpegStreams(n - 1) \cup {s \o g : s \in JpegStreams(n - 1), g \in Segments}

PngHead == <<137, 80, 78, 71, 13, 10, 26, 10, 0, 0, 0, 13, 73, 72, 68, 82, 0, 0, 0, 3,
             0, 0, 0, 2>> \* 3 wide, 2 high
GifHead == <<71, 73, 70, 56, 57, 97, 3, 0, 2, 0>> \o Zeros(14) \* 3 wide, 2 high
Prefixes(d) == {SubSeq(d, 1, n) : n \in 0..Len(d)}

Streams == JpegStreams(MaxSegs) \cup Prefixes(PngHead) \cup Prefixes(GifHead)

\* the extension of pathlike; "jpg" stands for every extension the code does not know
Hints == {"png", "gif", "jpeg", "jpg"}

InitSniff ==
  /\ InitEditor({<<>>}, {{}})
  /\ img_element = NoElement
  /\ \E d \in Streams, f \in Hints :
       fhandle = [pc |-> "head", data |-> d, format_ |-> f, pos |-> 0, size |-> 0, ftype |-> 0,
                  byte |-> 0, want |-> 0,
                  result |-> [kind |-> "", val |-> "", width |-> 0, height |-> 0]]

NextSniff ==
  \/ SniffHead
  \/ JpegSeek
  \/ JpegFill
  \/ JpegType
  \/ JpegSof

SpecSniff == InitSniff /\ [][NextSniff]_vars

\* the interpreter goes on executing the call
SpecSniffFair == SpecSniff /\ WF_vars(NextSniff)

\* ------------------------------------------------------------------ claims
\* futures of key k that are submitted and whose load_image has not ended
Outstanding(k) == {i \in Tasks : th[i].pc \in {"queued", "load"} /\ th[i].path = k}

InRender(t) == th[t].pc \in {"up_check", "up_alive", "m2h", "phantom", "gbi_cache",
                             "gbi_loading", "gbi_submit", "gbi_append", "gbi_open"}

\* C1: deduplication -- for every remote key at most one fetch task is
\* outstanding (submitted and not yet completed) at any time, however many
\* threads resolve the key concurrently.
C1_AtMostOneOutstanding == \A k \in RemoteKeys : Cardinality(Outstanding(k)) <= 1

\* C2: every kind of fetch failure is cached -- whenever a load_image task has
\* ended in failure, the completion callback stores the error placeholder under
\* the task's key.
C2_FailureIsCached ==
  [][\A i \in Tasks :
       (th[i].pc = "cb_write" /\ th[i].res /= Img /\ th'[i] /= th[i])
         => images_cache'[th[i].path] = Err404]_vars

\* C3: each completed fetch task, succeeded or failed, has invoked re_render
\* exactly once by the time its completion callback is over.
C3_ReRenderExactlyOnce == \A i \in Tasks : th[i].pc = "done" => th[i].rr = 1

\* C4: cache idempotence -- once images_cache holds an entry for a key the
\* entry is never overwritten or removed, a resolve that finds it returns it,
\* and no fetch task is submitted and no file read started for that key again.
C4_CacheIdempotent ==
  [][\A k \in Keys : images_cache[k] /= None =>
       /\ images_cache'[k] = images_cache[k]
       /\ \A t \in Threads :
            /\ (th[t].pc = "gbi_cache" /\ th[t].path = k /\ th'[t] /= th[t])
                 => th'[t].html = Append(th[t].html, images_cache[k])
            /\ ~(th[t].pc = "gbi_submit" /\ th[t].path = k /\ th'[t] /= th[t])
            /\ ~(th[t].pc = "gbi_open" /\ th[t].path = k /\ th'[t] /= th[t])]_vars

\* C7: no failure aborts a render -- a failure while resolving one image never
\* ends markdown2html with an exception instead of an html string.
C7_NoRenderAborted ==
  \A t \in Threads : th[t].last \notin {"FileNotFoundError", "ValueError: unpack"}

\* C8: the render path never waits on network I/O -- a resolve that misses the
\* cache for a remote key hands back the loading placeholder, whether or not a
\* fetch for the key is in flight, and every render that has started ends with
\* no fetch task making progress.
C8_RenderNeverWaits ==
  /\ [][\A t \in Threads :
         (th[t].pc \in {"gbi_loading", "gbi_append"} /\ th'[t] /= th[t])
           => \/ th'[t].pc = "gbi_submit"
              \/ th'[t].html = Append(th[t].html, Loading)]_vars
  /\ \A t \in Threads : InRender(t) ~> ~InRender(t)

\* a re-render has come to its end with the loading placeholder for a key whose
\* fetch, submitted by another render, has not even been started
C8_Witness ==
  \E i \in Tasks : \E j \in Tasks :
    /\ th[i].pc = "phantom"
    /\ th[j].pc = "queued"
    /\ \E n \in 1..Len(th[i].html) : th[i].html[n] = Loading /\ doc[n] = th[j].path

\* nothing is running and nothing is scheduled: only a new event changes the preview
Quiescent ==
  /\ th[Main].pc = "idle"
  /\ \A i \in Tasks : th[i].pc \in {"idle", "done"}
  /\ timers = <<>>

\* C5: after a remote fetch has completed the preview comes to show the fetched
\* result with no further edit -- when everything has come to rest, no preview
\* of the open view is left on the loading placeholder.
C5_PreviewShowsResult ==
  (Quiescent /\ view_open)
    => \A p \in DOMAIN phantom_sets :
         \A j \in 1..Len(phantom_sets[p]) : phantom_sets[p][j] /= Loading

\* C6: global throttle -- across all triggers and all listener instances, any
\* two full renders of the markdown view are at least DELAY apart.
C6_GlobalThrottle ==
  \A i, j \in 1..Len(render_log) : i < j => render_log[j] - render_log[i] >= DELAY

\* C9: update_preview for a view that is closed (buffer_id 0), or that has no
\* open preview, is a no-op -- it renders nothing, updates no phantom set,
\* leaves last_update unchanged and raises no error.
C9_ClosedViewNoOp ==
  [][\A t \in Threads :
       ( /\ th'[t] /= th[t]
         /\ \/ th[t].pc \in {"up_check", "up_alive"} /\ ~view_open
            \/ th[t].pc = "up_alive" /\ find_preview = <<>> )
         => /\ UNCHANGED <<last_update, phantom_sets, render_log>>
            /\ \/ th'[t].pc = "up_alive" /\ th'[t].last = th[t].last
               \/ /\ th'[t].pc \in {"idle", "done"}
                  /\ th'[t].last \in {"throttled", "gone", "nopreview"}]_vars

\* a completion callback found its view closed and returned, and a timer found
\* no preview and returned
C9_Witness ==
  /\ \E i \in Tasks : th[i].pc = "done" /\ th[i].last = "gone"
  /\ ~view_open

\* C10: bounded pool -- never more than 5 load_image tasks execute; a request
\* submitted while the pool is busy waits in the queue and is started only once
\* a worker is free, and every queued request is started: in the end the queue
\* stays empty.
C10_BoundedPool ==
  /\ [](Cardinality({i \in Tasks : th[i].pc = "load"}) <= 5)
  /\ [][\A i \in Tasks : (th[i].pc = "queued" /\ th'[i].pc /= "queued")
                            => Cardinality(Executing) < 5 /\ th'[i].pc = "load"]_vars
  /\ <>[](Queued = {})

\* five tasks execute, among them one that had to wait in the queue until an
\* earlier one was finished
C10_Witness ==
  /\ Cardinality({i \in Tasks : th[i].pc = "load"}) = 5
  /\ \E i, j \in Tasks : j < i /\ th[j].pc = "done" /\ th[i].pc = "load"

\* C11: oversized scaling -- an image wider than the viewport gets width = the
\* viewport width and height = height * viewport width / width (the aspect
\* ratio is kept); an image at most as wide as the viewport, equality included,
\* gets no width and no height attribute.
C11_OversizedScaling ==
  img_element.pc = "done" =>
    IF img_element.width > img_element.viewport_width
    THEN /\ img_element.attrs.width = img_element.viewport_width
         /\ img_element.attrs.height
              = TrueDiv(img_element.height * img_element.viewport_width, img_element.width)
         /\ img_element.attrs.height[1] * img_element.width
              = img_element.height * img_element.attrs.width * img_element.attrs.height[2]
    ELSE DOMAIN img_element.attrs = {}

\* a 4x2 image in a viewport of width 1 is 1 wide and 1/2 high, and a 3x2 image
\* in a viewport of width 3 is left alone
C11_Witness ==
  /\ img_element.pc = "done"
  /\ \/ /\ img_element.width = 4 /\ img_element.height = 2 /\ img_element.viewport_width = 1
        /\ img_element.attrs = [width |-> 1, height |-> <<1, 2>>]
     \/ /\ img_element.width = 3 /\ img_element.height = 2 /\ img_element.viewport_width = 3
        /\ DOMAIN img_element.attrs = {}

C18_JpegScanTerminates ==
  /\ []((fhandle.pc = "done" /\ fhandle.format_ = "jpeg" /\ Len(fhandle.data) >= HeadLen) =>
          \/ /\ fhandle.result.kind = "size"
             /\ fhandle.ftype \in 192..207
             /\ fhandle.pos >= 8
             /\ fhandle.pos <= Len(fhandle.data)
             /\ fhandle.data[fhandle.pos - 7] = fhandle.ftype
             /\ fhandle.result.height
                  = UInt16BE(fhandle.data[fhandle.pos - 3], fhandle.data[fhandle.pos - 2])
             /\ fhandle.result.width
                  = UInt16BE(fhandle.data[fhandle.pos - 1], fhandle.data[fhandle.pos])
          \/ /\ fhandle.result.kind = "raise"
             /\ fhandle.want > 0
             /\ fhandle.pos + fhandle.want > Len(fhandle.data))
  /\ (fhandle.pc = "head" /\ fhandle.format_ = "jpeg" /\ Len(fhandle.data) >= HeadLen)
       ~> (fhandle.pc = "done")

\* the scan went over a segment and a run of fill bytes, found the frame
\* header behind them and returned its 3 x 2
C18_Witness ==
  /\ fhandle.pc = "done"
  /\ fhandle.format_ = "jpeg"
  /\ fhandle.data = SOI \o APP0 \o FillBytes \o SOF0
  /\ fhandle.result = [kind |-> "size", val |-> "", width |-> 3, height |-> 2]

\* futures of key k whose completion has not been handled: load_image has not
\* ended, or the callback has not yet removed the key
Pending(k) ==
  {i \in Tasks : th[i].path = k /\ th[i].pc \in {"queued", "load", "cb_write", "cb_remove"}}

\* C13: in-flight set invariant -- a key is in images_loading if and only if a
\* load_image task for it has been submitted and its completion has not yet
\* been handled (the submitting call being allowed the moment between its
\* submit and its append).
C13_InFlightSetInvariant ==
  \A k \in RemoteKeys :
    /\ InList(k, images_loading) => Pending(k) /= {}
    /\ Pending(k) /= {}
         => \/ InList(k, images_loading)
            \/ \E t \in Threads : th[t].pc = "gbi_append" /\ th[t].path = k

\* C14: completion runs to the end and in order -- every key added to
\* images_loading is removed again, on success and on every failure: once all
\* tasks are finished and no thread is running, images_loading is empty; and at
\* the moment the callback invokes re_render its key has an entry in
\* images_cache and is no longer in images_loading.
C14_CompletionRunsToEnd ==
  /\ []((\A t \in Threads : th[t].pc \in {"idle", "done"}) => images_loading = <<>>)
  /\ [][\A i \in Tasks :
          (th[i].pc = "cb_remove" /\ th'[i].pc = "up_check")
            => /\ images_cache'[th[i].path] /= None
               /\ ~InList(th[i].path, images_loading')]_vars

\* between a membership check (or the first write of the callback) and the
\* write that follows it
InWindow(t) == th[t].pc \in {"gbi_submit", "gbi_append", "cb_remove"}

\* at a statement that reads or writes images_cache or images_loading
AtSharedAccess(t) ==
  th[t].pc \in {"gbi_cache", "gbi_loading", "gbi_append", "gbi_open", "cb_write", "cb_remove"}

\* C15: all mutation of images_cache and images_loading is serialized -- the
\* completion callbacks run one at a time, and while one thread is between a
\* membership check and the write that follows it no other thread reads or
\* writes images_cache or images_loading.
C15_MutationSerialized ==
  /\ [](Cardinality({i \in Tasks : th[i].pc \in {"cb_write", "cb_remove"} \/ InRender(i)}) <= 1)
  /\ [][\A t, u \in Threads :
          (t /= u /\ InWindow(t) /\ AtSharedAccess(u)) => th'[u] = th[u]]_vars

\* C16: a failed local resolution changes no shared state -- when the file of
\* a local path cannot be opened or its header cannot be sniffed, the error
\* leaves the call, images_cache and images_loading stay exactly as they were
\* and no fetch task is submitted.
C16_FailedLocalNoEffect ==
  [][\A t \in Threads :
       (th[t].pc = "gbi_open" /\ th[t].path \in MissingFiles \cup BadFiles /\ th'[t] /= th[t])
         => /\ UNCHANGED <<images_cache, images_loading, ntasks>>
            /\ th'[t].pc \in {"idle", "done"}
            /\ th'[t].last \in {"FileNotFoundError", "ValueError: unpack"}
            /\ \A i \in Tasks : th'[i].pc = "queued" => th[i].pc = "queued"]_vars

\* a re-render in a worker thread has failed on the file whose header cannot be
\* sniffed, and nothing is cached for the file
C16_Witness ==
  \E i \in Tasks :
    /\ th[i].pc = "done"
    /\ th[i].last = "ValueError: unpack"
    /\ images_cache["/doc/bad.png"] = None
    /\ images_cache["http://a"] /= None

\* the views find_preview can yield for the markdown view
OwnPreviews == {x \in previews : preview_view_info(x) = MdView}

C20_PhantomSetsCoverPreviews ==
  /\ \A x \in OwnPreviews : x \in DOMAIN phantom_sets
  /\ \A t \in Threads : th[t].last /= "KeyError"

====
